---- MODULE Spec2Model ----
(***************************************************************************)
(* Model of the EWMA + two-sided CUSUM drift detector                      *)
(* (drift_detector.py, detect_drift_ewcusum), of the waveform reducer      *)
(* (waveform_analyzer.py) and of the outlier screen (bad_data_detector.py).*)
(*                                                                         *)
(* Numbers.  The drift detector computes in IEEE-754 doubles, and so does  *)
(* the model: a double is a record of a kind ("fin", "inf", "nan"), a      *)
(* sign, a mantissa of up to 53 bits and a binary exponent, its value      *)
(* being (-1)^sign * man * 2^exp.  The mantissa is a natural number held   *)
(* as a sequence of 14-bit limbs, least significant first, so that no      *)
(* intermediate integer needs more than 32 bits.  Every operation computes *)
(* the exact result and rounds it once to the nearest double, ties to      *)
(* even, with gradual underflow and overflow to infinity, as the hardware  *)
(* does.  The two zeros are not told apart: no comparison of the code      *)
(* does.  The outlier screen computes in the same doubles.  The waveform    *)
(* reducer works on exact multiples of a tenth and an eighth, as its       *)
(* section says.                                                           *)
(***************************************************************************)
EXTENDS Integers, Sequences, FiniteSets, TLC

Micro == 10^6

\* ---------------------------------------------------------------- bounds
MaxLen == 4

\* ------------------------------------------------- natural numbers by limbs
\* A natural number is a sequence of limbs below Base, least significant
\* first, with no leading zero limb; <<>> is 0.
LimbBits == 14
Base == 2^14

Limb(a, i) == IF i <= Len(a) THEN a[i] ELSE 0

RECURSIVE Trim(_)
Trim(a) ==
    IF a = <<>> THEN a
    ELSE IF a[Len(a)] = 0 THEN Trim(SubSeq(a, 1, Len(a) - 1)) ELSE a

\* Carries (or borrows) propagated through the limb sums w, from carry c.
RECURSIVE Norm(_, _)
Norm(w, c) ==
    IF w = <<>> THEN (IF c = 0 THEN <<>> ELSE <<c % Base>> \o Norm(<<>>, c \div Base))
    ELSE <<(Head(w) + c) % Base>> \o Norm(Tail(w), (Head(w) + c) \div Base)

MaxI(a, b) == IF a >= b THEN a ELSE b
MinI(a, b) == IF a <= b THEN a ELSE b

AddN(a, b) == Trim(Norm([i \in 1..MaxI(Len(a), Len(b)) |-> Limb(a, i) + Limb(b, i)], 0))

\* a - b for a >= b
SubN(a, b) == Trim(Norm([i \in 1..MaxI(Len(a), Len(b)) |-> Limb(a, i) - Limb(b, i)], 0))

RECURSIVE ColSum(_, _, _, _)
ColSum(a, b, col, i) ==
    IF i > Len(a) \/ i > col THEN 0
    ELSE (IF col - i + 1 <= Len(b) THEN a[i] * b[col - i + 1] ELSE 0) + ColSum(a, b, col, i + 1)

\* a * b for operands of at most eight limbs
MulN(a, b) ==
    IF a = <<>> \/ b = <<>> THEN <<>>
    ELSE Trim(Norm([col \in 1..(Len(a) + Len(b) - 1) |-> ColSum(a, b, col, 1)], 0))

\* a * d for 0 <= d <= Base
MulSmall(a, d) == Trim(Norm([i \in 1..Len(a) |-> a[i] * d], 0))

RECURSIVE CmpFrom(_, _, _)
CmpFrom(a, b, i) ==
    IF i = 0 THEN 0
    ELSE IF a[i] < b[i] THEN -1 ELSE IF a[i] > b[i] THEN 1 ELSE CmpFrom(a, b, i - 1)

\* -1, 0, 1 for a < b, a = b, a > b
CmpN(a, b) ==
    IF Len(a) < Len(b) THEN -1 ELSE IF Len(a) > Len(b) THEN 1 ELSE CmpFrom(a, b, Len(a))

RECURSIVE BitLenInt(_)
BitLenInt(v) == IF v = 0 THEN 0 ELSE 1 + BitLenInt(v \div 2)

BitLen(a) == IF a = <<>> THEN 0 ELSE LimbBits * (Len(a) - 1) + BitLenInt(a[Len(a)])

\* a * 2^sh
ShlN(a, sh) ==
    IF a = <<>> THEN a
    ELSE [i \in 1..(sh \div LimbBits) |-> 0] \o MulSmall(a, 2^(sh % LimbBits))

\* floor(a / 2^sh)
ShrN(a, sh) ==
    LET q == sh \div LimbBits
        r == sh % LimbBits
    IN  IF q >= Len(a) THEN <<>>
        ELSE Trim([i \in 1..(Len(a) - q) |->
                     (a[i + q] \div 2^r) + (Limb(a, i + q + 1) % 2^r) * 2^(LimbBits - r)])

\* some bit of a below bit pos is set
AnyBelow(a, pos) ==
    \/ \E i \in 1..MinI(Len(a), pos \div LimbBits) : a[i] # 0
    \/ Limb(a, pos \div LimbBits + 1) % 2^(pos % LimbBits) # 0

FromNat(v) == Trim(Norm(<<v>>, 0))

\* One quotient digit by repeated under-estimation: R < D * Base, and the top
\* limb of D is at least Base / 2.
RECURSIVE DigitStep(_, _, _)
DigitStep(R, D, acc) ==
    IF CmpN(R, D) < 0 THEN [q |-> acc, r |-> R]
    ELSE LET est == MaxI(1, (Limb(R, Len(D)) + Limb(R, Len(D) + 1) * Base) \div (D[Len(D)] + 1))
         IN  DigitStep(SubN(R, MulSmall(D, est)), D, acc + est)

\* Schoolbook division, from limb i of N down, R the running remainder.
RECURSIVE LongDiv(_, _, _, _, _)
LongStep(N, D, i, st, Q) == LongDiv(N, D, i - 1, st.r, <<st.q>> \o Q)

LongDiv(N, D, i, R, Q) ==
    IF i = 0 THEN [q |-> Trim(Q), r |-> R]
    ELSE LongStep(N, D, i,
                  DigitStep(IF R = <<>> /\ N[i] = 0 THEN <<>> ELSE <<N[i]>> \o R, D, 0), Q)

QuotOf(res) == [q |-> res.q, exact |-> res.r = <<>>]

DivAligned(N1, D1) == QuotOf(LongDiv(N1, D1, Len(N1), <<>>, <<>>))

\* floor(N / D) and whether the division left no remainder, D # 0
DivN(N, D) ==
    DivAligned(ShlN(N, LimbBits - BitLenInt(D[Len(D)])), ShlN(D, LimbBits - BitLenInt(D[Len(D)])))

\* floor(sqrt(v)) for lo <= floor(sqrt(v)) <= hi <= 46340
RECURSIVE ISqrt(_, _, _)
ISqrt(v, lo, hi) ==
    IF lo >= hi THEN lo
    ELSE IF ((lo + hi + 1) \div 2) * ((lo + hi + 1) \div 2) <= v
         THEN ISqrt(v, (lo + hi + 1) \div 2, hi)
         ELSE ISqrt(v, lo, (lo + hi + 1) \div 2 - 1)

ToInt(a) == Limb(a, 1) + Limb(a, 2) * Base + Limb(a, 3) * Base * Base

\* Newton's iteration from an xk above the root.
RECURSIVE Newton(_, _)
NewtonStep(N, xk, nx) == IF CmpN(nx, xk) >= 0 THEN xk ELSE Newton(N, nx)

Newton(N, xk) == NewtonStep(N, xk, ShrN(AddN(xk, DivN(N, xk).q), 1))

\* the root of the top 30 bits of N, plus one, scaled back
SqrtSeed(N, j) == ShlN(FromNat(ISqrt(ToInt(ShrN(N, 2 * j)), 0, 32768) + 1), j)

\* floor(sqrt(N)), N # 0
ISqrtN(N) == Newton(N, SqrtSeed(N, IF BitLen(N) <= 30 THEN 0 ELSE (BitLen(N) - 30 + 1) \div 2))

\* ------------------------------------------------------------ doubles
Prec == 53

Zero == [kind |-> "fin", sign |-> 0, man |-> <<>>, exp |-> 0]
NaN == [kind |-> "nan", sign |-> 0, man |-> <<>>, exp |-> 0]
Inf(s) == [kind |-> "inf", sign |-> s, man |-> <<>>, exp |-> 0]

IsNaN(v) == v.kind = "nan"
IsInf(v) == v.kind = "inf"
IsZero(v) == v.kind = "fin" /\ v.man = <<>>

\* the double (-1)^s * M * 2^e for an M of at most 53 bits, e >= -1074
Pack(s, M, e) ==
    IF M = <<>> THEN Zero
    ELSE IF e + BitLen(M) > 1024 THEN Inf(s)
    ELSE [kind |-> "fin", sign |-> s, man |-> M, exp |-> e]

\* a rounded mantissa that has grown to 54 bits is 2^53
Renorm(s, M, e) == IF BitLen(M) > Prec THEN Pack(s, ShrN(M, 1), e + 1) ELSE Pack(s, M, e)

\* to nearest, ties to even: up when the first dropped bit is set and either
\* something lies below it or the kept part is odd
RoundUpIf(q, half, more) == IF half /\ (more \/ Limb(q, 1) % 2 = 1) THEN AddN(q, <<1>>) ELSE q

RoundedQuot(N, sh, sticky) ==
    RoundUpIf(ShrN(N, sh), Limb(ShrN(N, sh - 1), 1) % 2 = 1, sticky \/ AnyBelow(N, sh - 1))

RoundBy(s, N, e, sticky, sh) ==
    IF sh <= 0 THEN Pack(s, ShlN(N, -sh), e + sh)
    ELSE Renorm(s, RoundedQuot(N, sh, sticky), e + sh)

\* The double nearest to (-1)^s * N * 2^e, ties to even; sticky says that the
\* exact value lies strictly above N * 2^e in magnitude, by less than 2^e.
RoundPack(s, N, e, sticky) ==
    IF N = <<>> THEN Zero
    ELSE RoundBy(s, N, e, sticky, MaxI(BitLen(N) - Prec, -1074 - e))

FromInt(i) == RoundPack(IF i < 0 THEN 1 ELSE 0, FromNat(IF i < 0 THEN -i ELSE i), 0, FALSE)

FNeg(a) ==
    IF IsNaN(a) \/ IsZero(a) THEN a ELSE [a EXCEPT !.sign = 1 - a.sign]

\* sml is below a quarter of the last place of big
AddFar(big, sml) ==
    RoundPack(big.sign,
              IF big.sign = sml.sign THEN ShlN(big.man, 2) ELSE SubN(ShlN(big.man, 2), <<1>>),
              big.exp - 2, TRUE)

AddSigned(sa, ma, sb, mb, e, cmp) ==
    RoundPack(IF sa = sb \/ cmp >= 0 THEN sa ELSE sb,
              IF sa = sb THEN AddN(ma, mb)
              ELSE IF cmp >= 0 THEN SubN(ma, mb) ELSE SubN(mb, ma),
              e, FALSE)

AddAligned(sa, ma, sb, mb, e) == AddSigned(sa, ma, sb, mb, e, CmpN(ma, mb))

AddOrdered(big, sml) ==
    IF big.exp - sml.exp > Prec + 3 THEN AddFar(big, sml)
    ELSE AddAligned(big.sign, ShlN(big.man, big.exp - sml.exp), sml.sign, sml.man, sml.exp)

\* a + b for finite non-zero a, b
AddFinite(a, b) ==
    AddOrdered(IF a.exp >= b.exp THEN a ELSE b, IF a.exp >= b.exp THEN b ELSE a)

FAdd(a, b) ==
    IF IsNaN(a) \/ IsNaN(b) THEN NaN
    ELSE IF IsInf(a) THEN (IF IsInf(b) /\ b.sign # a.sign THEN NaN ELSE a)
    ELSE IF IsInf(b) THEN b
    ELSE IF IsZero(a) THEN b
    ELSE IF IsZero(b) THEN a
    ELSE AddFinite(a, b)

FSub(a, b) == FAdd(a, FNeg(b))

FMul(a, b) ==
    IF IsNaN(a) \/ IsNaN(b) THEN NaN
    ELSE IF IsInf(a) \/ IsInf(b)
         THEN IF IsZero(a) \/ IsZero(b) THEN NaN ELSE Inf((a.sign + b.sign) % 2)
    ELSE IF IsZero(a) \/ IsZero(b) THEN Zero
    ELSE RoundPack((a.sign + b.sign) % 2, MulN(a.man, b.man), a.exp + b.exp, FALSE)

DivRound(s, dv, e) == RoundPack(s, dv.q, e, ~dv.exact)

\* a / b for finite non-zero a, b, from a quotient of at least 56 bits
DivFinite(a, b, sh) ==
    DivRound((a.sign + b.sign) % 2, DivN(ShlN(a.man, sh), b.man), a.exp - b.exp - sh)

\* a / b on numpy doubles: a finite non-zero value over zero is an infinity
FDiv(a, b) ==
    IF IsNaN(a) \/ IsNaN(b) THEN NaN
    ELSE IF IsInf(a) THEN (IF IsInf(b) THEN NaN ELSE Inf((a.sign + b.sign) % 2))
    ELSE IF IsInf(b) THEN Zero
    ELSE IF IsZero(b) THEN (IF IsZero(a) THEN NaN ELSE Inf(a.sign))
    ELSE IF IsZero(a) THEN Zero
    ELSE DivFinite(a, b, MaxI(0, Prec + 3 + BitLen(b.man) - BitLen(a.man)))

SqrtRound(N, rt, e) == RoundPack(0, rt, e, CmpN(MulN(rt, rt), N) # 0)

SqrtOf(N, e) == SqrtRound(N, ISqrtN(N), e)

\* sqrt(a) for finite a > 0, from a root of at least 55 bits; sh makes the
\* exponent even
SqrtFinite(a, sh) ==
    SqrtOf(ShlN(a.man, IF (a.exp - sh) % 2 = 0 THEN sh ELSE sh + 1),
           (a.exp - (IF (a.exp - sh) % 2 = 0 THEN sh ELSE sh + 1)) \div 2)

FSqrt(a) ==
    IF IsNaN(a) THEN NaN
    ELSE IF IsZero(a) THEN Zero
    ELSE IF a.sign = 1 THEN NaN
    ELSE IF IsInf(a) THEN a
    ELSE SqrtFinite(a, MaxI(0, 2 * Prec + 4 - BitLen(a.man)))

\* -1, 0, 1 for |a| < |b|, |a| = |b|, |a| > |b|; a and b finite and non-zero
MagCmp(a, b) ==
    IF a.exp + BitLen(a.man) < b.exp + BitLen(b.man) THEN -1
    ELSE IF a.exp + BitLen(a.man) > b.exp + BitLen(b.man) THEN 1
    ELSE IF a.exp >= b.exp THEN CmpN(ShlN(a.man, a.exp - b.exp), b.man)
    ELSE CmpN(a.man, ShlN(b.man, b.exp - a.exp))

SignOf(a) == IF IsZero(a) THEN 0 ELSE IF a.sign = 1 THEN -1 ELSE 1

\* -1, 0, 1 for a < b, a = b, a > b; neither is a NaN
FCmp(a, b) ==
    IF SignOf(a) # SignOf(b) THEN (IF SignOf(a) < SignOf(b) THEN -1 ELSE 1)
    ELSE IF SignOf(a) = 0 THEN 0
    ELSE IF IsInf(a) \/ IsInf(b)
         THEN (IF IsInf(a) /\ IsInf(b) THEN 0
               ELSE IF IsInf(a) THEN SignOf(a) ELSE -SignOf(a))
    ELSE SignOf(a) * MagCmp(a, b)

\* comparisons with a NaN are false
FGt(a, b) == ~IsNaN(a) /\ ~IsNaN(b) /\ FCmp(a, b) > 0
FGe(a, b) == ~IsNaN(a) /\ ~IsNaN(b) /\ FCmp(a, b) >= 0
FLt(a, b) == FGt(b, a)
FLe(a, b) == FGe(b, a)

\* Python's None, where a double is expected.
None == [kind |-> "none", sign |-> 0, man |-> <<>>, exp |-> 0]

\* Python's builtin max(a, b): returns a unless b > a, so max(nan, b) is nan
\* and max(a, nan) is a.
PyMax(a, b) == IF FGt(b, a) THEN b ELSE a

\* np.clip(z, lo, hi) = minimum(maximum(z, lo), hi), a NaN in any of the
\* three giving NaN; hi when lo > hi.
Clip(z, lo, hi) ==
    LET m == IF IsNaN(z) \/ FGt(z, lo) THEN z ELSE lo
    IN  IF IsNaN(m) \/ FLt(m, hi) THEN m ELSE hi

\* The double a decimal literal with the value num / den denotes: the
\* double nearest to the quotient.
Dec(num, den) == FDiv(FromInt(num), FromInt(den))

One == FromInt(1)
Two == FromInt(2)

\* the literal 1e-12
Eps == FDiv(One, FMul(FromInt(Micro), FromInt(Micro)))

\* ------------------------------------------------------------- the inputs
\* Samples a caller may pass: the finite readings 5.0 and 5.02, so that
\* residuals of both signs occur, a NaN, a None.
FiniteSamples == {FromInt(5), Dec(502, 100)}
InvalidSamples == {NaN, None}

SeqsUpTo(S, m) == UNION {[1..len -> S] : len \in 0..m}

\* Configurations: the defaults of the signature and, for each parameter, a
\* second value that makes alarms and the floor reachable on short inputs.
Configs ==
    [alpha_baseline : {Dec(1, 100), Dec(1, 2)},
     alpha_var      : {Dec(5, 100), Dec(95, 100)},
     delta          : {Dec(1, 4)},
     h              : {FromInt(1), FromInt(5)},
     warmup         : {0, 2},
     clip_z         : {None, FromInt(6)}]

DefaultConfig ==
    [alpha_baseline |-> Dec(1, 100), alpha_var |-> Dec(5, 100), delta |-> Dec(1, 4),
     h |-> FromInt(5), warmup |-> 100, clip_z |-> FromInt(6)]

\* --------------------------------------------------------- the algorithm
\* x = np.asarray(x, dtype=float): a None element becomes nan.
asarray(xin) == [i \in 1..Len(xin) |-> IF xin[i] = None THEN NaN ELSE xin[i]]

\* A slip: the guard never holds, so an empty array reaches x[0].
IsEmptyInput_Never(len) == len < 0

\* if n == 0
IsEmptyInput(len) == len = 0

\* np.array([]) for each of the five keys.
EmptyResult ==
    [alarms |-> <<>>, mu |-> <<>>, sigma |-> <<>>, S_plus |-> <<>>, S_minus |-> <<>>]

\* np.zeros(n)
Zeros(len) == [i \in 1..len |-> Zero]

\* A slip: the baseline is seeded from the last sample of the batch.
InitBaseline_Last(xs) == xs[Len(xs)]

\* mu_t = x[0]
InitBaseline(xs) == xs[1]

\* var_t = 1e-6
InitVar == Dec(1, Micro)

\* k = delta / 2.0
RefValue(delta) == FDiv(delta, Two)

\* mu_t = (1 - alpha_baseline) * mu_t + alpha_baseline * x[t]
UpdateBaseline(m, xt, a) == FAdd(FMul(FSub(One, a), m), FMul(a, xt))

\* r = x[t] - mu_t
Residual(xt, m) == FSub(xt, m)

\* A slip: the residual term is left out, var_t = (1 - alpha_var) * var_t.
UpdateVar_NoResidual(v, res, a) == FMul(FSub(One, a), v)

\* var_t = (1 - alpha_var) * var_t + alpha_var * (r * r)
UpdateVar(v, res, a) == FAdd(FMul(FSub(One, a), v), FMul(a, FMul(res, res)))

\* the floor in max(var_t, 1e-12)
VarFloor == Eps

\* A slip: the floor is left out, sigma_t = sqrt(var_t).
SigmaOf_NoFloor(v) == FSqrt(v)

\* sigma_t = float(np.sqrt(max(var_t, 1e-12)))
SigmaOf(v) == FSqrt(PyMax(v, VarFloor))

\* z = r / (sigma_t + 1e-12)
Standardize(res, s) == FDiv(res, FAdd(s, Eps))

\* A slip: the clip is skipped.
Winsorize_Off(zz, clip) == zz

\* if clip_z is not None: z = float(np.clip(z, -clip_z, clip_z))
Winsorize(zz, clip) == IF clip # None THEN Clip(zz, FNeg(clip), clip) ELSE zz

\* (S[t-1] if t else 0.0): t is the zero-based index, arrays are one-based.
Prev(arr, tt) == IF tt # 0 THEN arr[tt] ELSE Zero

\* A slip: the accumulator is not rectified.
CusumUpdate_NoRectify(prev, zz, kk) == FSub(FAdd(prev, zz), kk)

\* A slip: the accumulator forgets the previous step, max(0.0, z - k).
CusumUpdate_NoCarry(prev, zz, kk) == PyMax(Zero, FSub(zz, kk))

\* max(0.0, prev + z - k); for S_minus zz is -z, and prev - z is prev + (-z)
\* in doubles.
CusumUpdate(prev, zz, kk) == PyMax(Zero, FSub(FAdd(prev, zz), kk))

\* A slip: the burn-in test is left out.
AlarmCond_NoWarmup(tt, sp, sm, c) == FGt(sp, c.h) \/ FGt(sm, c.h)

\* A slip: the threshold test is not strict, S >= h.
AlarmCond_NonStrict(tt, sp, sm, c) == tt >= c.warmup /\ (FGe(sp, c.h) \/ FGe(sm, c.h))

\* t >= warmup and (S_plus_t > h or S_minus_t > h)
AlarmCond(tt, sp, sm, c) == tt >= c.warmup /\ (FGt(sp, c.h) \/ FGt(sm, c.h))

\* A slip: the alarm is recorded but the stored series keep the peak.
Rearm_KeepPeak(s) == [s EXCEPT !.alarms = Append(@, s.t)]

\* A slip: the alarm also re-centres the baseline on the sample and
\* re-seeds the variance.
Rearm_Recenter(s) ==
    [s EXCEPT !.alarms = Append(@, s.t),
              !.S_plus[s.t + 1] = Zero,
              !.S_minus[s.t + 1] = Zero,
              !.mu_t = FAdd(s.mu_t, s.r),
              !.var_t = Dec(1, Micro)]

\* A slip: only S_plus[t] is reset.
Rearm_PlusOnly(s) == [s EXCEPT !.alarms = Append(@, s.t), !.S_plus[s.t + 1] = Zero]

\* alarms.append(t); S_plus[t] = 0.0; S_minus[t] = 0.0
Rearm(s) ==
    [s EXCEPT !.alarms = Append(@, s.t),
              !.S_plus[s.t + 1] = Zero,
              !.S_minus[s.t + 1] = Zero]

\* The frame of the call after n != 0: arrays allocated, estimators seeded.
InitFrame(xs, c) ==
    [t |-> 0,
     mu |-> Zeros(Len(xs)), sig |-> Zeros(Len(xs)),
     S_plus |-> Zeros(Len(xs)), S_minus |-> Zeros(Len(xs)),
     mu_t |-> InitBaseline(xs), var_t |-> InitVar, k |-> RefValue(c.delta),
     r |-> Zero, sigma_t |-> Zero, z |-> Zero, S_plus_t |-> Zero, S_minus_t |-> Zero,
     alarms |-> <<>>]

\* One iteration of `for t in range(n)` on frame s, statement by statement.
\* line 45
StepBaseline(s, xs, c) ==
    [s EXCEPT !.mu_t = UpdateBaseline(s.mu_t, xs[s.t + 1], c.alpha_baseline)]

\* line 49
StepResidual(s, xs) == [s EXCEPT !.r = Residual(xs[s.t + 1], s.mu_t)]

\* line 50
StepVar(s, c) == [s EXCEPT !.var_t = UpdateVar(s.var_t, s.r, c.alpha_var)]

\* line 51
StepSigma(s) == [s EXCEPT !.sigma_t = SigmaOf(s.var_t)]

\* lines 54-57
StepZ(s, c) == [s EXCEPT !.z = Winsorize(Standardize(s.r, s.sigma_t), c.clip_z)]

\* lines 60-61
StepCusum(s) ==
    [s EXCEPT !.S_plus_t = CusumUpdate(Prev(s.S_plus, s.t), s.z, s.k),
              !.S_minus_t = CusumUpdate(Prev(s.S_minus, s.t), FNeg(s.z), s.k)]

\* lines 46, 52, 62, 63: the four series at index t
StepRecord(s) ==
    [s EXCEPT !.mu[s.t + 1] = s.mu_t, !.sig[s.t + 1] = s.sigma_t,
              !.S_plus[s.t + 1] = s.S_plus_t, !.S_minus[s.t + 1] = s.S_minus_t]

\* lines 65-69
StepAlarm(s, c) == IF AlarmCond(s.t, s.S_plus_t, s.S_minus_t, c) THEN Rearm(s) ELSE s

LoopBody(s, xs, c) ==
    [StepAlarm(StepRecord(StepCusum(StepZ(StepSigma(StepVar(
        StepResidual(StepBaseline(s, xs, c), xs), c)), c))), c) EXCEPT !.t = @ + 1]

\* return {"alarms": ..., "mu": mu, "sigma": sig, "S_plus": ..., "S_minus": ...}
Result(s) ==
    [alarms |-> s.alarms, mu |-> s.mu, sigma |-> s.sig,
     S_plus |-> s.S_plus, S_minus |-> s.S_minus]

RECURSIVE RunLoop(_, _, _)
RunLoop(s, xs, c) == IF s.t < Len(xs) THEN RunLoop(LoopBody(s, xs, c), xs, c) ELSE s

\* The whole call: what detect_drift_ewcusum(xin, **c) returns.
detect_drift_ewcusum(xin, c) ==
    LET xs == asarray(xin)
    IN  IF IsEmptyInput(Len(xs)) THEN EmptyResult
        ELSE Result(RunLoop(InitFrame(xs, c), xs, c))

\* ------------------------------------------------------ the state machine
VARIABLES
    x_in,       \* the caller's sequence
    cfg,        \* the keyword arguments
    pc,         \* "call", "loop", "done", "raised"
    f,          \* the frame: arrays, carried estimators, locals, loop index t
    ret         \* the returned dict

vars == <<x_in, cfg, pc, f, ret>>

x == asarray(x_in)
n == Len(x)

NoFrame ==
    [t |-> 0, mu |-> <<>>, sig |-> <<>>, S_plus |-> <<>>, S_minus |-> <<>>,
     mu_t |-> Zero, var_t |-> Zero, k |-> Zero, r |-> Zero, sigma_t |-> Zero, z |-> Zero,
     S_plus_t |-> Zero, S_minus_t |-> Zero, alarms |-> <<>>]

InitWith(inputs, configs) ==
    /\ x_in \in inputs
    /\ cfg \in configs
    /\ pc = "call"
    /\ f = NoFrame
    /\ ret = EmptyResult

Init == InitWith(SeqsUpTo(FiniteSamples, MaxLen), Configs)

\* lines 27-29: the early return on an empty array.
ReturnEmpty ==
    /\ pc = "call"
    /\ IsEmptyInput(n)
    /\ ret' = EmptyResult
    /\ pc' = "done"
    /\ UNCHANGED <<x_in, cfg, f>>

\* lines 31-41: allocate and seed; x[0] on an empty array raises IndexError.
Setup ==
    /\ pc = "call"
    /\ ~IsEmptyInput(n)
    /\ IF n = 0
       THEN pc' = "raised" /\ UNCHANGED f
       ELSE pc' = "loop" /\ f' = InitFrame(x, cfg)
    /\ UNCHANGED <<x_in, cfg, ret>>

\* lines 43-69: one iteration of the loop.
LoopIter ==
    /\ pc = "loop"
    /\ f.t < n
    /\ f' = LoopBody(f, x, cfg)
    /\ UNCHANGED <<x_in, cfg, pc, ret>>

\* lines 71-77: the loop is exhausted, the dict is returned.
Return ==
    /\ pc = "loop"
    /\ f.t = n
    /\ ret' = Result(f)
    /\ pc' = "done"
    /\ UNCHANGED <<x_in, cfg, f>>

Next == ReturnEmpty \/ Setup \/ LoopIter \/ Return

Spec == Init /\ [][Next]_vars

\* ======================================================================
\* The waveform reducer (waveform_analyzer.py, analyze_waveform).
\*
\* A waveform is a sequence of samples [p |-> pressure, t |-> time]:
\* pressures in tenths (10.2 is 102), times and blanking_time in eighths of a
\* time unit (0.25 is 2), so that every time, difference and comparison of
\* the model is exact in doubles as well.  The call uses the same state:
\* x_in is the waveform, cfg the keyword arguments, f the frame, ret the
\* returned array.
\* ======================================================================
MaxWave == 3

PressureScale == 10^1

\* int(np.round(p)): numpy rounds halves to the even neighbour.
RoundHalfEven(p) ==
    LET q == p \div PressureScale
        rem == p % PressureScale
    IN  IF 2 * rem < PressureScale THEN q
        ELSE IF 2 * rem > PressureScale THEN q + 1
        ELSE IF q % 2 = 0 THEN q ELSE q + 1

\* int(p): Python truncates toward zero.
TruncInt(p) == IF p >= 0 THEN p \div PressureScale ELSE -((-p) \div PressureScale)

\* max(p for p, t in waveform)
MaxOfPressures(w) == CHOOSE m \in {w[i].p : i \in 1..Len(w)} : \A i \in 1..Len(w) : w[i].p <= m

\* A slip: the bin array is one short, int(np.round(max)) without the + 1.
MaxPressure_NoPlusOne(w, mode) ==
    IF mode = "round" THEN RoundHalfEven(MaxOfPressures(w)) ELSE TruncInt(MaxOfPressures(w))

\* lines 28-31: round mode rounds the maximum, every other mode truncates it.
MaxPressure(w, mode) ==
    IF mode = "round" THEN RoundHalfEven(MaxOfPressures(w)) + 1
    ELSE TruncInt(MaxOfPressures(w)) + 1

ValidModes == {"round", "floor"}

\* lines 39-42, for a mode that does not raise.
Quantize(p, mode) == IF mode = "round" THEN RoundHalfEven(p) ELSE TruncInt(p)

\* if time - last_time >= blanking_time
Gate(time, last, b) == time - last >= b

\* last_time = -blanking_time
InitLastTime(b) == -b

\* if 0 <= pressure_int < max_pressure
InRange(q, mp) == 0 <= q /\ q < mp

\* bins = np.zeros(max_pressure, dtype=int)
ZeroBins(len) == [i \in 1..len |-> 0]

NoWaveFrame == [i |-> 0, bins |-> <<>>, last_time |-> 0, max_pressure |-> 0, accepted |-> <<>>]

\* lines 34-35; accepted lists the one-based positions of the samples that
\* passed the gate (history, not a variable of the code).
InitWaveFrame(w, c) ==
    LET mp == MaxPressure(w, c.quantize_mode)
    IN  [i |-> 0, bins |-> ZeroBins(mp), last_time |-> InitLastTime(c.blanking_time),
         max_pressure |-> mp, accepted |-> <<>>]

\* lines 46-48 for a sample that passed the gate with a valid mode.
AcceptSample(s, smp, c) ==
    LET q == Quantize(smp.p, c.quantize_mode)
    IN  [s EXCEPT !.bins = IF InRange(q, s.max_pressure)
                           THEN [@ EXCEPT ![q + 1] = @ + 1] ELSE @,
                  !.last_time = smp.t,
                  !.accepted = Append(@, s.i + 1),
                  !.i = @ + 1]

WaveformsOver(pressures, times) ==
    SeqsUpTo([p : pressures, t : times], MaxWave)

InitWaveWith(waves) ==
    /\ x_in \in waves
    /\ cfg \in [blanking_time : {1, 2}, quantize_mode : {"round", "floor", "invalid"}]
    /\ pc = "call"
    /\ f = NoWaveFrame
    /\ ret = <<>>

\* Pressures 1.5 (rounds to 2, truncates to 1) and 2.5 (2 either way); times
\* -0.125, 0, 0.125, 0.25.
InitWave == InitWaveWith(WaveformsOver({15, 25}, {-1, 0, 1, 2}))

\* lines 21-22: the early return on an empty waveform.
WaveReturnEmpty ==
    /\ pc = "call"
    /\ Len(x_in) = 0
    /\ ret' = <<>>
    /\ pc' = "done"
    /\ UNCHANGED <<x_in, cfg, f>>

\* lines 26-35: np.zeros of a negative size raises ValueError.
WaveSetup ==
    /\ pc = "call"
    /\ Len(x_in) # 0
    /\ IF MaxPressure(x_in, cfg.quantize_mode) < 0
       THEN pc' = "raised" /\ UNCHANGED f
       ELSE pc' = "loop" /\ f' = InitWaveFrame(x_in, cfg)
    /\ UNCHANGED <<x_in, cfg, ret>>

\* lines 37-48: one sample; the mode is looked at only once a sample has
\* passed the gate.
WaveIter ==
    /\ pc = "loop"
    /\ f.i < Len(x_in)
    /\ LET smp == x_in[f.i + 1]
       IN  IF Gate(smp.t, f.last_time, cfg.blanking_time)
           THEN IF cfg.quantize_mode \in ValidModes
                THEN f' = AcceptSample(f, smp, cfg) /\ pc' = "loop"
                ELSE pc' = "raised" /\ UNCHANGED f
           ELSE f' = [f EXCEPT !.i = @ + 1] /\ pc' = "loop"
    /\ UNCHANGED <<x_in, cfg, ret>>

\* line 50
WaveReturn ==
    /\ pc = "loop"
    /\ f.i = Len(x_in)
    /\ ret' = f.bins
    /\ pc' = "done"
    /\ UNCHANGED <<x_in, cfg, f>>

NextWave == WaveReturnEmpty \/ WaveSetup \/ WaveIter \/ WaveReturn

SpecWave == InitWave /\ [][NextWave]_vars

\* The same call on waveforms that also hold negative pressures: -0.4, which
\* both modes quantize to 0, and -1.2, which both quantize to -1.
InitWaveSigned == InitWaveWith(WaveformsOver({15, 25, -4, -12}, {0, 1}))

SpecWaveSigned == InitWaveSigned /\ [][NextWave]_vars

\* ======================================================================
\* The representative pressure (waveform_analyzer.py, find_pa_mean).
\*
\* x_in is the histogram, ret the returned value: None, or the median as a
\* double.
\* ======================================================================
MaxBins == 5

MaxCount == 3

\* non_zero_counts = bins[bins > 0]
NonZeroCounts(bins) == SelectSeq(bins, LAMBDA c : c > 0)

\* count_frequencies = Counter(non_zero_counts)
CountFrequencies(nz) ==
    [c \in {nz[i] : i \in 1..Len(nz)} |-> Cardinality({i \in 1..Len(nz) : nz[i] = c})]

MaxOfSet(S) == CHOOSE m \in S : \A e \in S : e <= m

\* max_freq = max(count_frequencies.values())
MaxFreq(cf) == MaxOfSet({cf[c] : c \in DOMAIN cf})

\* modes = [count for count, freq in count_frequencies.items() if freq == max_freq]
Modes(cf) == {c \in DOMAIN cf : cf[c] = MaxFreq(cf)}

\* A slip: the lowest of the equally frequent counts.
ModalCount_Lowest(cf) == CHOOSE m \in Modes(cf) : \A e \in Modes(cf) : m <= e

\* modal_count = max(modes)
ModalCount(cf) == MaxOfSet(Modes(cf))

\* final_bin_indices = np.where(bins == modal_count)[0]: the zero-based
\* indices, ascending.
FinalBinIndices(bins, m) ==
    SelectSeq([i \in 1..Len(bins) |-> i - 1], LAMBDA k : bins[k + 1] = m)

\* np.median of an ascending array: the middle element, or the mean of the
\* two middle ones.
Median(idx) ==
    LET k == Len(idx)
    IN  IF k % 2 = 1 THEN FromInt(idx[(k + 1) \div 2])
        ELSE FDiv(FromInt(idx[k \div 2] + idx[k \div 2 + 1]), Two)

find_pa_mean(bins) ==
    LET nz == NonZeroCounts(bins)
    IN  IF Len(nz) = 0 THEN None
        ELSE LET idx == FinalBinIndices(bins, ModalCount(CountFrequencies(nz)))
             IN  IF Len(idx) = 0 THEN None ELSE Median(idx)

InitMean ==
    /\ x_in \in SeqsUpTo(0..MaxCount, MaxBins)
    /\ cfg = <<>>
    /\ pc = "call"
    /\ f = NoWaveFrame
    /\ ret = <<>>

\* lines 66-69: no non-zero bin.
MeanReturnNone ==
    /\ pc = "call"
    /\ Len(NonZeroCounts(x_in)) = 0
    /\ ret' = find_pa_mean(x_in)
    /\ pc' = "done"
    /\ UNCHANGED <<x_in, cfg, f>>

\* lines 71-84
MeanReturn ==
    /\ pc = "call"
    /\ Len(NonZeroCounts(x_in)) # 0
    /\ ret' = find_pa_mean(x_in)
    /\ pc' = "done"
    /\ UNCHANGED <<x_in, cfg, f>>

NextMean == MeanReturnNone \/ MeanReturn

SpecMean == InitMean /\ [][NextMean]_vars

\* ======================================================================
\* The outlier screen (bad_data_detector.py, t_prediction_test).
\*
\* x_in is the baseline and cfg holds the candidate x_new, alpha and tppf,
\* all doubles.  tppf is what scipy.stats.t.ppf(1 - alpha/2, df) returns to
\* this call, None when SciPy cannot be imported and the fallback of lines
\* 28-34 runs.  p_value needs the distribution function and decides
\* nothing here: the returned record carries lower, upper and outlier.
\*
\* baseline.mean() and baseline.std(ddof=1) are numpy's: np.add.reduce
\* sums a contiguous array of doubles pairwise (in sequence below 8
\* elements, in 8 lanes up to 128, in halves above), the mean divides the
\* sum by the count, the variance sums the squared deviations from that
\* mean the same way and divides by the count less ddof.
\* ======================================================================
MaxBase == 4

\* if n < 2
TooFewPoints(size) == size < 2

\* for (; i <= last; i += step) res += a[i], the loop carried in st
RECURSIVE Accumulate(_, _, _, _)
Accumulate(a, last, step, st) ==
    IF st.i > last THEN st.res
    ELSE Accumulate(a, last, step, [i |-> st.i + step, res |-> FAdd(st.res, a[st.i])])

\* ((r[0] + r[1]) + (r[2] + r[3])) + ((r[4] + r[5]) + (r[6] + r[7]))
RECURSIVE PairTree(_, _, _)
PairTree(r, j, cnt) ==
    IF cnt = 1 THEN r[j]
    ELSE FAdd(PairTree(r, j, cnt \div 2), PairTree(r, j + cnt \div 2, cnt \div 2))

\* r[j] = a[j]; for (i = 8; i < n - n % 8; i += 8) r[j] += a[i + j]
Lanes(a, first, last) ==
    [j \in 1..8 |-> Accumulate(a, last, 8, [i |-> first + j + 7, res |-> a[first + j - 1]])]

\* The sum of the cnt elements of a from a[first]: below 8 elements
\* res = -0.0; for (i = 0; i < n; i++) res += a[i]; up to 128 the 8 lanes,
\* their tree and the rest in sequence; above, the two halves.
RECURSIVE PairwiseSum(_, _, _)
PairwiseSum(a, first, cnt) ==
    IF cnt < 8 THEN Accumulate(a, first + cnt - 1, 1, [i |-> first, res |-> Zero])
    ELSE IF cnt <= 128
    THEN Accumulate(a, first + cnt - 1, 1,
                    [i |-> first + cnt - (cnt % 8),
                     res |-> PairTree(Lanes(a, first, first + cnt - (cnt % 8) - 1), 1, 8)])
    ELSE FAdd(PairwiseSum(a, first, (cnt \div 2) - ((cnt \div 2) % 8)),
              PairwiseSum(a, first + (cnt \div 2) - ((cnt \div 2) % 8),
                          cnt - ((cnt \div 2) - ((cnt \div 2) % 8))))

\* xbar = baseline.mean()
Mean(b) == FDiv(PairwiseSum(b, 1, Len(b)), FromInt(Len(b)))

Square(v) == FMul(v, v)

\* x = arr - arrmean; x = multiply(x, x); ret = sum(x) / (n - ddof)
Variance(b, m) ==
    FDiv(PairwiseSum([i \in 1..Len(b) |-> Square(FSub(b[i], m))], 1, Len(b)),
         FromInt(Len(b) - 1))

\* s = baseline.std(ddof=1)
StdDev(b) == FSqrt(Variance(b, Mean(b)))

\* se_pred = s * np.sqrt(1 + 1/n)
SePred(s, size) == FMul(s, FSqrt(FAdd(One, FDiv(One, FromInt(size)))))

\* The t quantile at 1 - alpha/2 for alpha 0.01 and 0.05, to the nearest
\* double: 63.656741162871526, 9.92484320091829, 5.840909309733355,
\* 4.604094871349992, 4.032142983555227 and 12.706204736174694,
\* 4.302652729749462, 3.1824463052837086, 2.7764451051977934,
\* 2.5705818356363146, for the degrees of freedom 1 to 5 that the baselines
\* of InitScreen reach.  SciPy returns nan for df < 1.
TPpf(alpha, df) ==
    LET t01 == << <<15408, 8368, 257, 2037>>, <<15992, 12590, 6224, 1270>>,
                  <<5032, 4611, 4469, 1495>>, <<1191, 8770, 10621, 1178>>,
                  <<10634, 7282, 3745, 1032>> >>
        t05 == << <<3358, 11057, 6458, 1626>>, <<1721, 9093, 7849, 1101>>,
                  <<425, 8783, 6758, 1629>>, <<13790, 10174, 8845, 1421>>,
                  <<16184, 5751, 2259, 1316>> >>
        ex01 == <<-47, -49, -50, -50, -50>>
        ex05 == <<-49, -50, -51, -51, -51>>
    IN  IF df < 1 THEN NaN
        ELSE IF alpha = Dec(1, 100) THEN Pack(0, t01[df], ex01[df])
        ELSE Pack(0, t05[df], ex05[df])

\* lines 23-33: SciPy's quantile, or, when the import fails,
\* zcrit = 2.5758293035489004 if alpha == 0.01 else 1.959963984540054
TCrit(alpha, tppf) ==
    IF tppf # None THEN tppf
    ELSE IF alpha = Dec(1, 100) THEN Pack(0, <<4448, 4954, 13510, 1318>>, -51)
    ELSE Pack(0, <<16260, 1979, 51, 2007>>, -52)

\* A slip: a candidate on the edge of the interval is flagged too.
IsOutlier_NonStrict(x_new, lo, hi) == FLe(x_new, lo) \/ FGe(x_new, hi)

\* is_outlier = (x_new < lo) or (x_new > hi)
IsOutlier(x_new, lo, hi) == FLt(x_new, lo) \/ FGt(x_new, hi)

\* lo = xbar - tcrit * se_pred; hi = xbar + tcrit * se_pred
\* return {"lower": lo, "upper": hi, "p_value": p, "outlier": is_outlier}
Interval(xbar, width, x_new) ==
    [lower |-> FSub(xbar, width),
     upper |-> FAdd(xbar, width),
     outlier |-> IsOutlier(x_new, FSub(xbar, width), FAdd(xbar, width))]

t_prediction_test(baseline, c) ==
    Interval(Mean(baseline),
             FMul(TCrit(c.alpha, c.tppf), SePred(StdDev(baseline), Len(baseline))),
             c.x_new)

\* Baselines over 10.0 and 10.5, whose sums are exact, and 0.1, whose sums
\* are not: three copies of 0.1 have the mean 0.10000000000000002.
\* Candidates 10 and 50, 9.134 just below the lower bound 9.134633 of
\* [10.0, 10.5] at alpha 0.01 without SciPy, 0.1 and that mean of three
\* copies of 0.1.
InitScreen ==
    /\ x_in \in SeqsUpTo({FromInt(10), Dec(21, 2), Dec(1, 10)}, MaxBase)
    /\ cfg \in {[x_new |-> xn, alpha |-> a, tppf |-> q] :
                  xn \in {FromInt(10), FromInt(50), Dec(9134, 1000), Dec(1, 10),
                          Mean(<<Dec(1, 10), Dec(1, 10), Dec(1, 10)>>)},
                  a \in {Dec(1, 100), Dec(5, 100)},
                  q \in {None} \cup {TPpf(b, Len(x_in) - 1) : b \in {Dec(1, 100), Dec(5, 100)}}}
    /\ cfg.tppf # None => cfg.tppf = TPpf(cfg.alpha, Len(x_in) - 1)
    /\ pc = "call"
    /\ f = NoWaveFrame
    /\ ret = <<>>

\* lines 16-17
ScreenRaise ==
    /\ pc = "call"
    /\ TooFewPoints(Len(x_in))
    /\ pc' = "raised"
    /\ UNCHANGED <<x_in, cfg, f, ret>>

\* lines 18-39
ScreenReturn ==
    /\ pc = "call"
    /\ ~TooFewPoints(Len(x_in))
    /\ ret' = t_prediction_test(x_in, cfg)
    /\ pc' = "done"
    /\ UNCHANGED <<x_in, cfg, f>>

NextScreen == ScreenRaise \/ ScreenReturn

SpecScreen == InitScreen /\ [][NextScreen]_vars

\* ------------------------------------------------- a clip that engages
\* Configurations with clip_z = 1.0, which the standardized residual of a
\* jump exceeds, and thresholds an accumulator can meet exactly:
\* 1.0 - 0.125 = 0.875 after one clipped step, 1.75 after two; with
\* clip_z = 0.0625, below the reference value k = 0.125; and with the
\* negative clip_z = -1.0, which np.clip turns into z = -1.0 throughout.
InitAlarm ==
    InitWith(SeqsUpTo(FiniteSamples, MaxLen),
             Configs \cup [alpha_baseline : {Dec(1, 100), Dec(1, 2)},
                           alpha_var      : {Dec(5, 100)},
                           delta          : {Dec(1, 4)},
                           h              : {Dec(875, 1000), Dec(175, 100)},
                           warmup         : {0, 2},
                           clip_z         : {One, Dec(1, 16), FNeg(One)}])

SpecAlarm == InitAlarm /\ [][Next]_vars

\* ------------------------------------------- invalid samples at the boundary
\* The same call, when the caller lets a NaN or a None through.
MaxInvalidLen == 3

InitInvalid ==
    InitWith(SeqsUpTo(FiniteSamples \cup InvalidSamples, MaxInvalidLen),
             {c \in Configs : c.alpha_baseline = Dec(1, 100) /\ c.alpha_var = Dec(5, 100)})

SpecInvalid == InitInvalid /\ [][Next]_vars

HasInvalid(xin) == \E i \in 1..Len(xin) : xin[i] \in InvalidSamples

\* ------------------------------------------------- residuals at the limit
\* Samples 0.0 and 1e6, whose jump dwarfs the seeded variance, under the
\* defaults with warmup = 0 and under alpha_var = 1.0.
InitLimit ==
    InitWith(SeqsUpTo({Zero, FromInt(Micro)}, MaxLen),
             {[DefaultConfig EXCEPT !.warmup = 0, !.alpha_var = a] : a \in {Dec(5, 100), One}})

SpecLimit == InitLimit /\ [][Next]_vars

\* ------------------------------------------------- a variance that decays
\* Constant stretches under alpha_var = 0.95, which takes the carried
\* variance from 1e-6 to below 1e-12 in five samples.
MaxFloorLen == 5

InitFloor ==
    InitWith(SeqsUpTo(FiniteSamples, MaxFloorLen),
             {c \in Configs : c.alpha_var = Dec(95, 100) /\ c.h = One /\ c.warmup = 0 /\ c.clip_z = FromInt(6)})

SpecFloor == InitFloor /\ [][Next]_vars

\* ------------------------------------------------------ prefixes of a run
\* The configurations with the low threshold, under which short inputs raise
\* several alarms.
InitPrefix ==
    InitWith(SeqsUpTo(FiniteSamples, MaxLen),
             {c \in Configs : c.alpha_var = Dec(5, 100) /\ c.h = One /\ c.clip_z = FromInt(6)})

SpecPrefix == InitPrefix /\ [][Next]_vars

\* --------------------------------------------------- the step scenario
\* SegLen copies of 5.0, then SegLen copies of 5.0 + step, under the defaults
\* of the signature (warmup = 100).
SegLen == 200

ScenarioInput(step) ==
    [i \in 1..(2 * SegLen) |-> IF i <= SegLen THEN FromInt(5) ELSE Dec(500 + step, 100)]

\* step sizes 0.01, 0.02 and 0.04, in hundredths
InitScenario ==
    InitWith({ScenarioInput(step) : step \in {1, 2, 4}}, {DefaultConfig})

NextScenario == Setup \/ LoopIter \/ Return

SpecScenario == InitScenario /\ [][NextScenario]_vars

\* ------------------------------------------------- recorded series, so far
\* The zero-based indices the loop has written.
Written == 0..(f.t - 1)

Running == pc \in {"loop", "done"}

AlarmSet(a) == {a[i] : i \in 1..Len(a)}

\* ---------------------------------------------------------------- claims

\* C1 (warmup suppression): no recorded alarm index is below warmup, in the
\* list being built and in the returned one, whatever the accumulators did
\* during the burn-in.
C1_WarmupSuppression ==
    /\ \A a \in AlarmSet(f.alarms) : a >= cfg.warmup
    /\ \A a \in AlarmSet(ret.alarms) : a >= cfg.warmup

\* C1 witness: the iteration just run was inside the burn-in, an accumulator
\* ended above h, and no alarm was recorded for it.
C1_Witness ==
    /\ pc = "loop" /\ f.t >= 1
    /\ f.t - 1 < cfg.warmup
    /\ (FGt(f.S_plus_t, cfg.h) \/ FGt(f.S_minus_t, cfg.h))
    /\ f.S_plus[f.t] = f.S_plus_t /\ f.S_minus[f.t] = f.S_minus_t
    /\ f.alarms = <<>>

\* C2 (re-arm): at every recorded alarm index both stored series hold 0, then
\* and for the rest of the call.
C2_Rearm ==
    /\ \A a \in AlarmSet(f.alarms) : f.S_plus[a + 1] = Zero /\ f.S_minus[a + 1] = Zero
    /\ \A a \in AlarmSet(ret.alarms) : ret.S_plus[a + 1] = Zero /\ ret.S_minus[a + 1] = Zero

\* C2 witness: the iteration just run raised an alarm from a peak above h and
\* the stored value at that index is 0, not the peak.
C2_Witness ==
    /\ pc = "loop" /\ f.t >= 1
    /\ f.t - 1 \in AlarmSet(f.alarms)
    /\ FGt(f.S_plus_t, cfg.h)
    /\ f.S_plus[f.t] = Zero

\* C3 (non-negativity): on finite input every written S_plus[t] and
\* S_minus[t] is >= 0.
C3_NonNegative ==
    Running => \A i \in Written : FGe(f.S_plus[i + 1], Zero) /\ FGe(f.S_minus[i + 1], Zero)

\* C3 witness: prev + z - k was negative for S_plus and the stored value is 0.
C3_Witness ==
    /\ pc = "loop" /\ f.t >= 2
    /\ FLt(FSub(FAdd(f.S_plus[f.t - 1], f.z), f.k), Zero)
    /\ f.S_plus[f.t] = Zero

\* The configurations that share cfg's two estimator rates and differ in the
\* alarm side: h, warmup, delta, clip_z.
SameEstimators(c) ==
    {c2 \in Configs : c2.alpha_baseline = c.alpha_baseline /\ c2.alpha_var = c.alpha_var}

\* The mu and sigma series as a function of the samples and the two rates
\* alone: the recurrences of the baseline and the variance, with no
\* accumulator, threshold, burn-in, reference value or clip.
RECURSIVE EstimatorSeries(_, _, _, _, _, _)
EstimatorSeries(xs, ab, av, m, v, acc) ==
    IF Len(acc.mu) = Len(xs) THEN acc
    ELSE LET xt == xs[Len(acc.mu) + 1]
             m2 == FAdd(FMul(FSub(One, ab), m), FMul(ab, xt))
             r2 == FSub(xt, m2)
             v2 == FAdd(FMul(FSub(One, av), v), FMul(av, FMul(r2, r2)))
             sg == FSqrt(IF FGt(Eps, v2) THEN Eps ELSE v2)
         IN  EstimatorSeries(xs, ab, av, m2, v2,
                             [mu |-> Append(acc.mu, m2), sigma |-> Append(acc.sigma, sg)])

EstimatorsOf(xs, ab, av) ==
    IF xs = <<>> THEN [mu |-> <<>>, sigma |-> <<>>]
    ELSE EstimatorSeries(xs, ab, av, xs[1], Dec(1, Micro), [mu |-> <<>>, sigma |-> <<>>])

\* C4 (alarms leave the estimators alone): the returned mu and sigma series
\* are the ones the samples, alpha_baseline and alpha_var alone determine,
\* hence the same under every h, warmup, delta and clip_z, and after each
\* iteration, alarm or not, the carried mu_t is the mu just recorded and the
\* carried var_t is the variance the recorded sigma was taken from.
C4_EstimatorsUnaffected ==
    /\ pc = "done" =>
          LET alone == EstimatorsOf(x, cfg.alpha_baseline, cfg.alpha_var)
          IN  alone.mu = ret.mu /\ alone.sigma = ret.sigma
    /\ (pc = "loop" /\ f.t >= 1) =>
          /\ f.mu_t = f.mu[f.t]
          /\ SigmaOf(f.var_t) = f.sig[f.t]

\* C4 witness: a returned run with an alarm before its last sample, while
\* another alarm-side configuration raises no alarm on the same samples.
C4_Witness ==
    /\ pc = "done"
    /\ ret.alarms # <<>>
    /\ ret.alarms[1] + 1 < n
    /\ \E c2 \in SameEstimators(cfg) : detect_drift_ewcusum(x_in, c2).alarms = <<>>

\* C5 (variance-state floor), as claimed: the variance carried into the next
\* update is never below the floor.
C5_CarriedVarianceFloored ==
    (Running /\ f.t >= 1) => FGe(f.var_t, VarFloor)

\* C6 (variance used is floored): every recorded sigma is at least 1e-6, the
\* root of the floor, so the divisor sigma + 1e-12 is positive.
C6_SigmaFloored ==
    Running =>
        \A i \in Written :
            /\ FGe(f.sig[i + 1], Dec(1, Micro))
            /\ FGt(FAdd(f.sig[i + 1], Eps), Zero)

\* C6 witness: the carried variance has decayed below the floor and the
\* recorded sigma is the root of the floor.
C6_Witness ==
    /\ pc = "loop" /\ f.t >= 1
    /\ FLt(f.var_t, VarFloor)
    /\ f.sig[f.t] = Dec(1, Micro)

\* C7 (sustained step is detected): under the defaults the returned alarms of
\* the step scenario hold an index of the second segment and none below
\* warmup.
C7_StepDetected ==
    pc = "done" =>
        /\ \E a \in AlarmSet(ret.alarms) : a >= SegLen /\ a <= 2 * SegLen - 1
        /\ \A a \in AlarmSet(ret.alarms) : ~(a >= 0 /\ a <= cfg.warmup - 1)

\* C7 witness: the scenario has returned, with an alarm within the first
\* samples after the step and every stored accumulator of the first segment 0.
C7_Witness ==
    /\ pc = "done"
    /\ n = 2 * SegLen /\ cfg = DefaultConfig
    /\ FGt(x[SegLen + 1], x[SegLen])
    /\ \E a \in AlarmSet(ret.alarms) : a >= SegLen /\ a < SegLen + 5

\* C8 (batch equals streaming): the call on any prefix x[0..m) returns the
\* first m entries of each series of the call on x, and the alarms of the full
\* call that are below m.
C8_PrefixRun ==
    pc = "done" =>
        \A m \in 0..Len(x_in) :
            LET p == detect_drift_ewcusum(SubSeq(x_in, 1, m), cfg)
                below(a) == a < m
            IN  /\ p.mu = SubSeq(ret.mu, 1, m)
                /\ p.sigma = SubSeq(ret.sigma, 1, m)
                /\ p.S_plus = SubSeq(ret.S_plus, 1, m)
                /\ p.S_minus = SubSeq(ret.S_minus, 1, m)
                /\ p.alarms = SelectSeq(ret.alarms, below)

\* C8 witness: a returned run over changing samples with an alarm below some
\* cut m and another at or after it.
C8_Witness ==
    /\ pc = "done"
    /\ \E m \in 1..(n - 1) :
          /\ x[m] # x[m + 1]
          /\ \E a \in AlarmSet(ret.alarms) : a < m
          /\ \E a \in AlarmSet(ret.alarms) : a >= m

\* C9 (invalid input fails fast), as claimed: a call whose input holds a None
\* or a NaN never returns normally.
C9_InvalidInputRaises ==
    HasInvalid(x_in) => pc # "done"

\* C10 (empty input): the call on an empty sequence ends by returning, never
\* by raising, and returns five empty series.
C10_EmptyInput ==
    (Len(x_in) = 0 /\ pc \in {"done", "raised"}) =>
        /\ pc = "done"
        /\ ret.mu = <<>> /\ ret.sigma = <<>>
        /\ ret.S_plus = <<>> /\ ret.S_minus = <<>>
        /\ ret.alarms = <<>>

\* C10 witness: the call on the empty sequence has returned.
C10_Witness ==
    /\ pc = "done"
    /\ Len(x_in) = 0
    /\ f = NoFrame

\* The zero-based index of the iteration just run, and the recorded values
\* at the index before it (0.0 at index 0).
Cur == f.t - 1
RecordedBefore(arr) == IF Cur = 0 THEN Zero ELSE arr[Cur]
Rectified(v) == IF FGt(v, Zero) THEN v ELSE Zero

\* C17 (alarm rule and accumulator update): after every iteration t the
\* pre-reset accumulators are max(0, P + z - k) and max(0, M - z - k) with
\* k = delta/2 and P, M the recorded values at t-1 (0 at t = 0 and after an
\* alarm at t-1), and t is in the alarm list exactly when t >= warmup and an
\* accumulator is strictly above h.
C17_AlarmRule ==
    (pc = "loop" /\ f.t >= 1) =>
        LET P == RecordedBefore(f.S_plus)
            M == RecordedBefore(f.S_minus)
        IN  /\ FMul(Two, f.k) = cfg.delta
            /\ f.S_plus_t = Rectified(FSub(FAdd(P, f.z), f.k))
            /\ f.S_minus_t = Rectified(FSub(FSub(M, f.z), f.k))
            /\ (Cur - 1) \in AlarmSet(f.alarms) => (P = Zero /\ M = Zero)
            /\ Cur \in AlarmSet(f.alarms) <=>
                  (Cur >= cfg.warmup /\ (FGt(f.S_plus_t, cfg.h) \/ FGt(f.S_minus_t, cfg.h)))

\* C17 witness: past the burn-in an accumulator is exactly h and no alarm is
\* recorded for that index.
C17_Witness ==
    /\ pc = "loop" /\ f.t >= 1
    /\ Cur >= cfg.warmup
    /\ f.S_plus_t = cfg.h
    /\ FLt(f.S_minus_t, cfg.h)
    /\ Cur \notin AlarmSet(f.alarms)

\* C18 as stated (winsorization): with clip_z given, |z| <= clip_z after
\* every iteration, and from index 1 on each pre-reset accumulator exceeds
\* the value recorded before it by at most clip_z - k.
C18_ClipBoundsStep ==
    (Running /\ f.t >= 1 /\ cfg.clip_z # None) =>
        /\ FLe(f.z, cfg.clip_z) /\ FLe(FNeg(f.z), cfg.clip_z)
        /\ Cur >= 1 =>
              /\ FLe(f.S_plus_t, FSub(FAdd(f.S_plus[Cur], cfg.clip_z), f.k))
              /\ FLe(f.S_minus_t, FSub(FAdd(f.S_minus[Cur], cfg.clip_z), f.k))

\* C18, amended: on finite input with clip_z >= 0 given, |z| <= clip_z after
\* every iteration; when moreover clip_z >= k = delta / 2, from index 1 on
\* each pre-reset accumulator exceeds the value recorded before it by at
\* most clip_z - k.
C18_ClipBoundsStepAboveRef ==
    (Running /\ f.t >= 1 /\ cfg.clip_z # None /\ FGe(cfg.clip_z, Zero)) =>
        /\ FLe(f.z, cfg.clip_z) /\ FLe(FNeg(f.z), cfg.clip_z)
        /\ (Cur >= 1 /\ FGe(cfg.clip_z, f.k)) =>
              /\ FLe(f.S_plus_t, FSub(FAdd(f.S_plus[Cur], cfg.clip_z), f.k))
              /\ FLe(f.S_minus_t, FSub(FAdd(f.S_minus[Cur], cfg.clip_z), f.k))

\* C18 witness: the standardized residual of a jump exceeded a clip_z above
\* k and the z fed to the accumulators is clip_z.
C18_Witness ==
    /\ pc = "loop" /\ f.t >= 2
    /\ cfg.clip_z # None
    /\ FGe(cfg.clip_z, f.k)
    /\ FGt(Standardize(f.r, f.sigma_t), cfg.clip_z)
    /\ f.z = cfg.clip_z
    /\ f.S_plus_t = FSub(FAdd(f.S_plus[Cur], cfg.clip_z), f.k)

\* C19 (accumulators bounded after warmup): on finite input with h >= 0 every
\* recorded S_plus[t] and S_minus[t] with t >= warmup is <= h, so a recorded
\* value above h sits at an index below warmup.
C19_BoundedAfterWarmup ==
    (Running /\ FGe(cfg.h, Zero)) =>
        \A i \in Written :
            i >= cfg.warmup => (FLe(f.S_plus[i + 1], cfg.h) /\ FLe(f.S_minus[i + 1], cfg.h))

\* C19 witness: a value above h recorded inside the burn-in, and later an
\* alarm from S_minus whose stored values are 0.
C19_Witness ==
    /\ pc = "loop" /\ f.t >= 1
    /\ \E i \in Written : i < cfg.warmup /\ FGt(f.S_plus[i + 1], cfg.h)
    /\ Cur \in AlarmSet(f.alarms)
    /\ FGt(f.S_minus_t, cfg.h)
    /\ f.S_minus[f.t] = Zero

\* The alarm-side defaults of the signature: alpha_var = 0.05, clip_z = 6,
\* delta = 0.25, h = 5.
AlarmDefaults ==
    /\ cfg.alpha_var = DefaultConfig.alpha_var
    /\ cfg.clip_z = DefaultConfig.clip_z
    /\ cfg.delta = DefaultConfig.delta
    /\ cfg.h = DefaultConfig.h

\* m1 * 2^e1 compared with m2 * 2^e2, exactly: -1, 0 or 1.
CmpScaled(m1, e1, m2, e2) ==
    LET e == MinI(e1, e2)
    IN  CmpN(ShlN(m1, e1 - e), ShlN(m2, e2 - e))

\* alpha_var * z^2 < 1, exactly, for the doubles a and zz.
BelowSelfLimit(zz, a) ==
    IsZero(zz) \/ CmpScaled(MulN(a.man, MulN(zz.man, zz.man)), a.exp + 2 * zz.exp, <<1>>, 0) < 0

\* alpha_var * z^2 <= 1 + 2^-50, exactly: the limit, with room for the six
\* roundings between r and z.
WithinSelfLimit(zz, a) ==
    \/ IsZero(zz)
    \/ CmpScaled(MulN(a.man, MulN(zz.man, zz.man)), a.exp + 2 * zz.exp,
                 AddN(ShlN(<<1>>, 50), <<1>>), -50) <= 0

\* What the default configuration is said to give: the clip leaves z
\* unchanged, an accumulator that starts the step at 0 ends it at most at
\* 4.35, below h, and no two consecutive indices are both alarms.
DefaultConsequences(z0) ==
    AlarmDefaults =>
        /\ f.z = z0
        /\ RecordedBefore(f.S_plus) = Zero =>
              (FLe(f.S_plus_t, Dec(435, 100)) /\ FLt(f.S_plus_t, cfg.h))
        /\ RecordedBefore(f.S_minus) = Zero =>
              (FLe(f.S_minus_t, Dec(435, 100)) /\ FLt(f.S_minus_t, cfg.h))
        /\ ~(Cur \in AlarmSet(f.alarms) /\ (Cur - 1) \in AlarmSet(f.alarms))

Processing == pc \in {"loop", "done"} /\ Len(x_in) > 0

AcceptedSet == {f.accepted[k] : k \in 1..Len(f.accepted)}

ModeIsValid == cfg.quantize_mode \in ValidModes

\* The gate as the description states it: the first sample is accepted
\* whatever its time, a later one when it is at least blanking_time after the
\* last accepted one.  RefLast(w, b, j) is the last accepted position among
\* the first j samples.
RECURSIVE RefLast(_, _, _)
RefLast(w, b, j) ==
    IF j = 1 THEN 1
    ELSE LET l == RefLast(w, b, j - 1)
         IN  IF w[j].t - w[l].t >= b THEN j ELSE l

\* C11: the first sample of a non-empty waveform passes the gate and is
\* counted in the histogram, whatever its time and whatever the blanking
\* interval.
C11_FirstSampleCounted ==
    (Processing /\ ModeIsValid /\ f.i >= 1) =>
        LET q == Quantize(x_in[1].p, cfg.quantize_mode)
        IN  /\ 1 \in AcceptedSet
            /\ InRange(q, f.max_pressure)
            /\ f.bins[q + 1] >= 1

\* C12: a sample after the first is counted if and only if its time is at
\* least blanking_time after the time of the last accepted sample, the first
\* sample being accepted and blanked samples not restarting the window.
C12_GateFromLastAccepted ==
    (Processing /\ ModeIsValid) =>
        \A j \in 2..f.i :
            j \in AcceptedSet <=>
                x_in[j].t - x_in[RefLast(x_in, cfg.blanking_time, j - 1)].t
                    >= cfg.blanking_time

\* C13: with a quantize_mode other than "round" and "floor" the call never
\* returns a histogram, whatever the waveform.
C13_InvalidModeRaises == ~ModeIsValid => pc # "done"

\* The number of gate-passing samples whose quantized pressure is b.
AcceptedInto(b) ==
    Cardinality({j \in AcceptedSet : Quantize(x_in[j].p, cfg.quantize_mode) = b})

RECURSIVE SumSeq(_)
SumSeq(sq) == IF sq = <<>> THEN 0 ELSE Head(sq) + SumSeq(Tail(sq))

QuantizedNonNegative ==
    \A j \in 1..Len(x_in) : Quantize(x_in[j].p, cfg.quantize_mode) >= 0

HistogramCountsAccepted ==
    /\ Len(f.bins) = f.max_pressure
    /\ \A j \in AcceptedSet : InRange(Quantize(x_in[j].p, cfg.quantize_mode), f.max_pressure)
    /\ \A b \in 0..(f.max_pressure - 1) : f.bins[b + 1] = AcceptedInto(b)
    /\ SumSeq(f.bins) = Len(f.accepted)
    /\ pc = "done" => ret = f.bins

\* C14 as stated: for every waveform each bin holds the number of
\* gate-passing samples quantized to it, and the total is the number of
\* gate-passing samples.
C14_EveryAcceptedCounted == (Processing /\ ModeIsValid) => HistogramCountsAccepted

\* C14, amended: the same for every waveform whose samples all quantize to
\* a non-negative pressure.
C14_NonNegativeCounted ==
    (Processing /\ ModeIsValid /\ QuantizedNonNegative) => HistogramCountsAccepted

C14_Witness ==
    /\ pc = "done"
    /\ ModeIsValid
    /\ QuantizedNonNegative
    /\ \E j \in AcceptedSet : x_in[j].p < 0
    /\ Len(f.accepted) = 2
    /\ Len(x_in) = 3
    /\ \E b \in 1..Len(ret) : ret[b] = 2

\* ------------------------------------------- representative pressure claim
\* How many bins hold the count c.
BinsWith(c) == {i \in 1..Len(x_in) : x_in[i] = c}

\* c is the modal count: a non-zero count no other non-zero count is more
\* frequent than, and the highest of those as frequent.
IsModalCount(c) ==
    /\ c > 0
    /\ BinsWith(c) # {}
    /\ \A d \in 1..MaxOfSet({x_in[i] : i \in 1..Len(x_in)}) :
          \/ Cardinality(BinsWith(d)) < Cardinality(BinsWith(c))
          \/ Cardinality(BinsWith(d)) = Cardinality(BinsWith(c)) /\ d <= c

\* v (in halves) is the median of the zero-based indices of the bins in I: as
\* many of them lie below v as above it, and v is one of them or the midpoint
\* of two neighbouring ones.
IsMedianOf(v, I) ==
    /\ Cardinality({i \in I : 2 * (i - 1) < v}) = Cardinality({i \in I : 2 * (i - 1) > v})
    /\ \E a, b \in I :
          /\ (a - 1) + (b - 1) = v
          /\ \A i \in I : ~(a < i /\ i < b)

\* The double v / 2.
Halves(v) == FDiv(FromInt(v), Two)

\* C15: find_pa_mean returns no value exactly when no bin is non-zero, and
\* otherwise the median of the indices of the bins holding the modal count,
\* the highest of the most frequent non-zero counts.
C15_ModalMedian ==
    pc = "done" =>
        /\ ret = None <=> \A i \in 1..Len(x_in) : x_in[i] = 0
        /\ ret # None =>
              \E c \in {x_in[i] : i \in 1..Len(x_in)}, v \in 0..(2 * MaxBins) :
                  IsModalCount(c) /\ ret = Halves(v) /\ IsMedianOf(v, BinsWith(c))

\* Two counts are equally frequent, the lower one comes first, and the median
\* falls between two indices.
C15_Witness ==
    /\ pc = "done"
    /\ ret # None
    /\ \E v \in 0..(2 * MaxBins) : v % 2 = 1 /\ ret = Halves(v)
    /\ \E c, d \in 1..MaxCount :
          /\ c < d
          /\ Cardinality(BinsWith(c)) = Cardinality(BinsWith(d))
          /\ IsModalCount(d)
          /\ \E i \in BinsWith(c) : \A j \in BinsWith(d) : i < j

\* ---------------------------------------------------- outlier screen claim
ZeroSpread == \A i \in 1..Len(x_in) : x_in[i] = x_in[1]

FAbs(v) == [v EXCEPT !.sign = 0]

\* lower <= m <= upper, and lower + upper = 2 m to within 2^-50 of the
\* larger bound.
Centred(lo, hi, m) ==
    /\ FLe(lo, m) /\ FLe(m, hi)
    /\ FLe(FAbs(FSub(FAdd(lo, hi), FMul(Two, m))),
           FMul(RoundPack(0, <<1>>, -50, FALSE), PyMax(FAbs(lo), FAbs(hi))))

StrictlyOutside == FLt(cfg.x_new, ret.lower) \/ FGt(cfg.x_new, ret.upper)

\* C16 as stated: with at least 2 baseline values the call returns, and
\* outlier is true exactly when the candidate lies strictly outside
\* [lower, upper], an interval centred on the baseline mean; for a constant
\* baseline c the interval is [c, c], so that exactly the candidates other
\* than c are flagged; with fewer than 2 values the call raises.
C16_OutlierDecision ==
    /\ pc # "call" => (pc = "raised" <=> Len(x_in) < 2)
    /\ pc = "done" =>
          /\ ret.outlier <=> StrictlyOutside
          /\ Centred(ret.lower, ret.upper, Mean(x_in))
          /\ ZeroSpread =>
                /\ ret.lower = x_in[1]
                /\ ret.upper = x_in[1]
                /\ ret.outlier <=> cfg.x_new # x_in[1]

\* C16, amended: with at least 2 baseline values the call returns, and
\* outlier is true exactly when the candidate lies strictly outside
\* [lower, upper], an interval centred on the computed baseline mean up to
\* rounding; for a constant baseline c whose computed mean is exactly c the
\* interval is [c, c], so that exactly the candidates other than c are
\* flagged; with fewer than 2 values the call raises.
C16_OutlierDecisionExactMean ==
    /\ pc # "call" => (pc = "raised" <=> Len(x_in) < 2)
    /\ pc = "done" =>
          /\ ret.outlier <=> StrictlyOutside
          /\ Centred(ret.lower, ret.upper, Mean(x_in))
          /\ (ZeroSpread /\ Mean(x_in) = x_in[1]) =>
                /\ ret.lower = x_in[1]
                /\ ret.upper = x_in[1]
                /\ ret.outlier <=> cfg.x_new # x_in[1]

\* The example of the description: [10, 10, 10, 10], candidate 50, alpha 0.01.
C16_Witness ==
    /\ pc = "done"
    /\ x_in = <<FromInt(10), FromInt(10), FromInt(10), FromInt(10)>>
    /\ cfg.x_new = FromInt(50)
    /\ cfg.alpha = Dec(1, 100)
    /\ ret.lower = FromInt(10)
    /\ ret.upper = FromInt(10)
    /\ ret.outlier

====
